---- MODULE Spec2Model ----
(***************************************************************************)
(* Aggregate Schnorr signatures (src/modules/aggsig/main_impl.h).          *)
(*                                                                         *)
(* The signing session, nonce generation, partial signing, combination and *)
(* verification are translated from main_impl.h.  The group, field, scalar,*)
(* hash and RNG primitives the module calls live in other files of the     *)
(* library; they are modelled on a scaled-down curve of the same shape as  *)
(* secp256k1: y^2 = x^3 + 2 over F_19, a group of prime order 13, with     *)
(* 19 = 3 (mod 4) so that exactly one of P, -P has a quadratic-residue y.  *)
(* A "b32" byte string is modelled by the integer it encodes (big endian); *)
(* a scalar string ranges over 0..SCALAR_B32-1, a field string over        *)
(* 0..FIELD_B32-1, so that encodings >= the modulus exist and overflow.    *)
(***************************************************************************)
EXTENDS Integers, Sequences, FiniteSets, TLC

\* ------------------------------------------------------------------------
\* Bounds of the model
\* ------------------------------------------------------------------------
\* largest roster size explored
MaxN == 2
\* seeds handed to context_create are 1, 4, .., 3*MaxSeed + 1 (see Seeds)
MaxSeed == 1
\* rosters 1..MaxKey are explored (see Keyrings)
MaxKey == 2
\* largest chunk size (SECP256K1_ECMULT_MULTI_MAX_N) explored by verify
MaxM == 3
\* messages handed to verify are 0..MaxMsg
MaxMsg == 0
\* compute_sighash is applied to the indices 0..MaxIndex (and to those of
\* IndexInputs)
MaxIndex == 130

\* ------------------------------------------------------------------------
\* External primitives: field, group, scalars (scaled-down secp256k1)
\* ------------------------------------------------------------------------
FIELD_P == 19
CURVE_B == 2
GROUP_N == 13
\* number of distinct scalar-sized byte strings (2^4 > GROUP_N)
SCALAR_B32 == 16
\* number of distinct field-sized byte strings (2^5 > FIELD_P)
FIELD_B32 == 32

ScalarStrings == 0..(SCALAR_B32 - 1)
FieldStrings == 0..(FIELD_B32 - 1)
Scalars == 0..(GROUP_N - 1)

\* the point at infinity; (0,0) is not on the curve
Infinity == <<0, 0>>

FeInvTable ==
    [a \in 1..(FIELD_P - 1) |-> CHOOSE z \in 1..(FIELD_P - 1) : (a * z) % FIELD_P = 1]

secp256k1_fe_inv(a) == FeInvTable[a]

QuadraticResidues == {(z * z) % FIELD_P : z \in 0..(FIELD_P - 1)}

secp256k1_fe_is_quad_var(y) == y \in QuadraticResidues

OnCurve(x, y) == (y * y) % FIELD_P = (x * x * x + CURVE_B) % FIELD_P

CurvePoints == {pt \in (0..(FIELD_P - 1)) \X (0..(FIELD_P - 1)) : OnCurve(pt[1], pt[2])}

GroupElems == CurvePoints \cup {Infinity}

secp256k1_gej_is_infinity(a) == a = Infinity

secp256k1_gej_neg(a) ==
    IF a = Infinity THEN Infinity ELSE <<a[1], (FIELD_P - a[2]) % FIELD_P>>

\* the group law in affine coordinates
GejAdd(a, b) ==
    IF a = Infinity THEN b
    ELSE IF b = Infinity THEN a
    ELSE IF a[1] = b[1] /\ (a[2] + b[2]) % FIELD_P = 0 THEN Infinity
    ELSE LET lam == IF a = b
                    THEN (3 * a[1] * a[1] * secp256k1_fe_inv((2 * a[2]) % FIELD_P)) % FIELD_P
                    ELSE ((b[2] - a[2] + FIELD_P)
                          * secp256k1_fe_inv((b[1] - a[1] + FIELD_P) % FIELD_P)) % FIELD_P
             x3 == (lam * lam + 2 * FIELD_P - a[1] - b[1]) % FIELD_P
             y3 == (lam * (a[1] - x3 + FIELD_P) + FIELD_P - a[2]) % FIELD_P
         IN <<x3, y3>>

GejAddTable == [a \in GroupElems |-> [b \in GroupElems |-> GejAdd(a, b)]]

\* a + b
secp256k1_gej_add_var(a, b) == GejAddTable[a][b]

\* all multiples k*a, k in 0..GROUP_N-1
MultiplesOf(a) ==
    LET f[k \in Scalars] == IF k = 0 THEN Infinity ELSE secp256k1_gej_add_var(f[k - 1], a)
    IN [k \in Scalars |-> f[k]]

EcmultTable == [a \in GroupElems |-> MultiplesOf(a)]

\* k*a
secp256k1_ecmult(k, a) == EcmultTable[a][k]

secp256k1_ge_const_g == <<4, 16>>

\* k*G
secp256k1_ecmult_gen(k) == secp256k1_ecmult(k, secp256k1_ge_const_g)

\* 0 for the point at infinity, else whether y is a quadratic residue
secp256k1_gej_has_quad_y_var(a) ==
    IF a = Infinity THEN FALSE ELSE secp256k1_fe_is_quad_var(a[2])

\* parse a scalar: reduced value and overflow flag
secp256k1_scalar_set_b32(b32) ==
    [val |-> b32 % GROUP_N, overflow |-> b32 >= GROUP_N]

secp256k1_scalar_get_b32(s) == s % SCALAR_B32

secp256k1_scalar_negate(s) == (GROUP_N - s) % GROUP_N

secp256k1_scalar_add(a, b) == (a + b) % GROUP_N

secp256k1_scalar_mul(a, b) == (a * b) % GROUP_N

secp256k1_scalar_is_zero(s) == s = 0

\* parse a field element; fails on a non-canonical encoding
secp256k1_fe_set_b32(b32) == [ok |-> b32 < FIELD_P, fe |-> b32 % FIELD_P]

\* the point with the given x and quadratic-residue y, if any
XquadTable ==
    [x \in 0..(FIELD_P - 1) |->
        LET roots == {pt \in CurvePoints : pt[1] = x /\ secp256k1_fe_is_quad_var(pt[2])}
        IN IF roots = {} THEN [ok |-> FALSE, ge |-> Infinity]
           ELSE [ok |-> TRUE, ge |-> CHOOSE pt \in roots : TRUE]]

secp256k1_ge_set_xquad(x) == XquadTable[x]

\* 33-byte compressed encoding: parity byte, then x
secp256k1_eckey_pubkey_serialize(a) == <<2 + (a[2] % 2), a[1]>>

\* ------------------------------------------------------------------------
\* External primitives: SHA-256 and the RFC 6979 generator (scaled down)
\* ------------------------------------------------------------------------
RECURSIVE Sha256Absorb(_, _)
Sha256Absorb(h, bytes) ==
    IF bytes = <<>> THEN h
    ELSE Sha256Absorb((h * 17 + Head(bytes) + 5) % 61, Tail(bytes))

\* digest of a byte sequence, as the integer its 32 bytes encode
secp256k1_sha256(bytes) == Sha256Absorb(23, bytes) % SCALAR_B32

secp256k1_rfc6979_hmac_sha256_initialize(seed) == secp256k1_sha256(<<seed>>)

\* one draw: the new generator state and the 32 bytes produced
secp256k1_rfc6979_hmac_sha256_generate(rng) ==
    LET next == (5 * rng + 3) % SCALAR_B32
    IN [rng |-> next, data |-> next]

\* ------------------------------------------------------------------------
\* enum nonce_progress
\* ------------------------------------------------------------------------
NONCE_PROGRESS_UNKNOWN == 0
NONCE_PROGRESS_OTHER == 1
NONCE_PROGRESS_OURS == 2
NONCE_PROGRESS_SIGNED == 3

\* ------------------------------------------------------------------------
\* Challenge hasher
\* ------------------------------------------------------------------------
RECURSIVE SerializePubkeys(_, _, _)
\* the loop "for (i = 0; i < n_pubkeys; i++)" of compute_prehash, from i
SerializePubkeys(pubkeys, n_pubkeys, i) ==
    IF i < n_pubkeys
    THEN secp256k1_eckey_pubkey_serialize(pubkeys[i]) \o SerializePubkeys(pubkeys, n_pubkeys, i + 1)
    ELSE <<>>

\* hash of the roster, the nonce point and the message
secp256k1_compute_prehash(pubkeys, n_pubkeys, nonce_ge, msghash32) ==
    secp256k1_sha256(SerializePubkeys(pubkeys, n_pubkeys, 0)
                     \o secp256k1_eckey_pubkey_serialize(nonce_ge)
                     \o <<msghash32>>)

RECURSIVE IndexBytes_ShiftEight(_)
\* mutant: the index is shifted by a whole byte ("index >>= 8")
IndexBytes_ShiftEight(index) ==
    IF index > 0 THEN <<index % 128>> \o IndexBytes_ShiftEight(index \div 256) ELSE <<>>

RECURSIVE IndexBytes(_)
\* the bytes written by "while (index > 0)" of compute_sighash
IndexBytes(index) ==
    IF index > 0 THEN <<index % 128>> \o IndexBytes(index \div 128) ELSE <<>>

\* everything written to the hasher of compute_sighash: the index bytes, then
\* the prehash
SighashInput(prehash, index) == IndexBytes(index) \o <<prehash>>

\* per-index challenge: ok = !overflow, r = the scalar
secp256k1_compute_sighash(prehash, index) ==
    LET output == secp256k1_sha256(SighashInput(prehash, index))
        parsed == secp256k1_scalar_set_b32(output)
    IN [ok |-> ~parsed.overflow, r |-> parsed.val]

\* ------------------------------------------------------------------------
\* Session
\* ------------------------------------------------------------------------
\* the arrays are malloc'ed; secnonce is not initialised (it is read only at
\* an index whose progress is OURS, i.e. after generate_nonce wrote it)
secp256k1_aggsig_context_create(pubkeys, n_pubkeys, seed) ==
    [progress |-> [i \in 0..(n_pubkeys - 1) |-> NONCE_PROGRESS_UNKNOWN],
     pubkeys |-> pubkeys,
     secnonce |-> [i \in 0..(n_pubkeys - 1) |-> 0],
     pubnonce_sum |-> Infinity,
     n_sigs |-> n_pubkeys,
     rng |-> secp256k1_rfc6979_hmac_sha256_initialize(seed)]

secp256k1_aggsig_context_destroy(aggctx) ==
    [progress |-> [i \in 0..(aggctx.n_sigs - 1) |-> 0],
     pubkeys |-> [i \in 0..(aggctx.n_sigs - 1) |-> Infinity],
     secnonce |-> [i \in 0..(aggctx.n_sigs - 1) |-> 0],
     pubnonce_sum |-> aggctx.pubnonce_sum,
     n_sigs |-> aggctx.n_sigs,
     rng |-> 0]

\* ------------------------------------------------------------------------
\* Nonce engine
\* ------------------------------------------------------------------------
RECURSIVE DrawNonce(_)
\* the do .. while (retry) loop: draw until the scalar is valid and non-zero
DrawNonce(rng) ==
    LET gen == secp256k1_rfc6979_hmac_sha256_generate(rng)
        parsed == secp256k1_scalar_set_b32(gen.data)
        retry == parsed.overflow \/ secp256k1_scalar_is_zero(parsed.val)
    IN IF retry THEN DrawNonce(gen.rng) ELSE [rng |-> gen.rng, secnonce |-> parsed.val]

\* mutant: the public nonce is negated but the secret nonce is not
CanonicalNonce_KeepScalar(k) ==
    LET pubnon == secp256k1_ecmult_gen(k)
    IN IF ~secp256k1_gej_has_quad_y_var(pubnon)
       THEN [secnonce |-> k, pubnon |-> secp256k1_gej_neg(pubnon)]
       ELSE [secnonce |-> k, pubnon |-> pubnon]

\* the nonce pair after "negate nonce if needed to get y to be a quadratic residue"
CanonicalNonce(k) ==
    LET pubnon == secp256k1_ecmult_gen(k)
    IN IF ~secp256k1_gej_has_quad_y_var(pubnon)
       THEN [secnonce |-> secp256k1_scalar_negate(k), pubnon |-> secp256k1_gej_neg(pubnon)]
       ELSE [secnonce |-> k, pubnon |-> pubnon]

\* mutant: only a nonce that was used for signing is protected
GenerateNonceAdmissible_NotSigned(aggctx, index) ==
    /\ index < aggctx.n_sigs
    /\ aggctx.progress[index] # NONCE_PROGRESS_SIGNED

\* ARG_CHECK(index < n_sigs) and the progress test
GenerateNonceAdmissible(aggctx, index) ==
    /\ index < aggctx.n_sigs
    /\ aggctx.progress[index] = NONCE_PROGRESS_UNKNOWN

\* mutant: the nonce is recorded as one received from another party
secp256k1_aggsig_generate_nonce_Other(aggctx, index) ==
    IF ~GenerateNonceAdmissible(aggctx, index)
    THEN [ret |-> 0, aggctx |-> aggctx]
    ELSE LET drawn == DrawNonce(aggctx.rng)
             canon == CanonicalNonce(drawn.secnonce)
         IN [ret |-> 1,
             aggctx |-> [aggctx EXCEPT
                 !.rng = drawn.rng,
                 !.secnonce[index] = canon.secnonce,
                 !.pubnonce_sum = secp256k1_gej_add_var(aggctx.pubnonce_sum, canon.pubnon),
                 !.progress[index] = NONCE_PROGRESS_OTHER]]

secp256k1_aggsig_generate_nonce(aggctx, index) ==
    IF ~GenerateNonceAdmissible(aggctx, index)
    THEN [ret |-> 0, aggctx |-> aggctx]
    ELSE LET drawn == DrawNonce(aggctx.rng)
             canon == CanonicalNonce(drawn.secnonce)
         IN [ret |-> 1,
             aggctx |-> [aggctx EXCEPT
                 !.rng = drawn.rng,
                 !.secnonce[index] = canon.secnonce,
                 !.pubnonce_sum = secp256k1_gej_add_var(aggctx.pubnonce_sum, canon.pubnon),
                 !.progress[index] = NONCE_PROGRESS_OURS]]

\* ------------------------------------------------------------------------
\* Partial signer
\* ------------------------------------------------------------------------
\* mutant: the target only has to hold a nonce (OURS or SIGNED)
PartialSignStateOk_AnyKnown(aggctx, index) ==
    /\ \A i \in 0..(aggctx.n_sigs - 1) : aggctx.progress[i] # NONCE_PROGRESS_UNKNOWN
    /\ aggctx.progress[index] # NONCE_PROGRESS_UNKNOWN

\* mutant: the loop over all indices is missing
PartialSignStateOk_TargetOnly(aggctx, index) ==
    aggctx.progress[index] = NONCE_PROGRESS_OURS

\* "check state machine": no index UNKNOWN and the target exactly OURS
PartialSignStateOk(aggctx, index) ==
    /\ \A i \in 0..(aggctx.n_sigs - 1) : aggctx.progress[i] # NONCE_PROGRESS_UNKNOWN
    /\ aggctx.progress[index] = NONCE_PROGRESS_OURS

\* mutant: the nonce point is negated for hashing but the secret nonce is kept
SignFlip_KeepNonce(aggctx, index) ==
    IF ~secp256k1_gej_has_quad_y_var(aggctx.pubnonce_sum)
    THEN [secnonce |-> aggctx.secnonce[index],
          tmp_ge |-> secp256k1_gej_neg(aggctx.pubnonce_sum)]
    ELSE [secnonce |-> aggctx.secnonce[index],
          tmp_ge |-> aggctx.pubnonce_sum]

\* mutant: only the signer of index 0 negates its secret nonce
SignFlip_FirstOnly(aggctx, index) ==
    IF ~secp256k1_gej_has_quad_y_var(aggctx.pubnonce_sum)
    THEN [secnonce |-> IF index = 0
                       THEN secp256k1_scalar_negate(aggctx.secnonce[index])
                       ELSE aggctx.secnonce[index],
          tmp_ge |-> secp256k1_gej_neg(aggctx.pubnonce_sum)]
    ELSE [secnonce |-> aggctx.secnonce[index],
          tmp_ge |-> aggctx.pubnonce_sum]

\* "if the total public nonce has wrong sign, negate our secret nonce":
\* the value of secnonce[index] and the affine nonce used for hashing
SignFlip(aggctx, index) ==
    IF ~secp256k1_gej_has_quad_y_var(aggctx.pubnonce_sum)
    THEN [secnonce |-> secp256k1_scalar_negate(aggctx.secnonce[index]),
          tmp_ge |-> secp256k1_gej_neg(aggctx.pubnonce_sum)]
    ELSE [secnonce |-> aggctx.secnonce[index],
          tmp_ge |-> aggctx.pubnonce_sum]

\* mutant: the nonce is marked as used before the overflow checks
secp256k1_aggsig_partial_sign_MarkEarly(aggctx, partial, msghash32, seckey32, index) ==
    IF ~(index < aggctx.n_sigs)
    THEN [ret |-> 0, abort |-> FALSE, aggctx |-> aggctx, partial |-> partial]
    ELSE IF ~PartialSignStateOk(aggctx, index)
    THEN [ret |-> 0, abort |-> FALSE, aggctx |-> aggctx, partial |-> partial]
    ELSE LET flip == SignFlip(aggctx, index)
             flipped == [aggctx EXCEPT !.secnonce[index] = flip.secnonce,
                                       !.progress[index] = NONCE_PROGRESS_SIGNED]
         IN IF flip.tmp_ge = Infinity
            THEN [ret |-> 0, abort |-> TRUE, aggctx |-> flipped, partial |-> partial]
            ELSE LET prehash == secp256k1_compute_prehash(aggctx.pubkeys, aggctx.n_sigs,
                                                          flip.tmp_ge, msghash32)
                     sighash == secp256k1_compute_sighash(prehash, index)
                     sec == secp256k1_scalar_set_b32(seckey32)
                 IN IF ~sighash.ok
                    THEN [ret |-> 0, abort |-> FALSE, aggctx |-> flipped, partial |-> partial]
                    ELSE IF sec.overflow
                    THEN [ret |-> 0, abort |-> FALSE, aggctx |-> flipped, partial |-> partial]
                    ELSE [ret |-> 1, abort |-> FALSE,
                          aggctx |-> flipped,
                          partial |-> secp256k1_scalar_get_b32(
                              secp256k1_scalar_add(secp256k1_scalar_mul(sec.val, sighash.r),
                                                   flip.secnonce))]

\* ret: the int returned; abort: the CHECK of compute_prehash failed (the
\* nonce point is the point at infinity, which does not serialize) and the
\* process was aborted; partial: the caller's output buffer after the call
secp256k1_aggsig_partial_sign(aggctx, partial, msghash32, seckey32, index) ==
    IF ~(index < aggctx.n_sigs)
    THEN [ret |-> 0, abort |-> FALSE, aggctx |-> aggctx, partial |-> partial]
    ELSE IF ~PartialSignStateOk(aggctx, index)
    THEN [ret |-> 0, abort |-> FALSE, aggctx |-> aggctx, partial |-> partial]
    ELSE LET flip == SignFlip(aggctx, index)
             flipped == [aggctx EXCEPT !.secnonce[index] = flip.secnonce]
         IN IF flip.tmp_ge = Infinity
            THEN [ret |-> 0, abort |-> TRUE, aggctx |-> flipped, partial |-> partial]
            ELSE LET prehash == secp256k1_compute_prehash(aggctx.pubkeys, aggctx.n_sigs,
                                                          flip.tmp_ge, msghash32)
                     sighash == secp256k1_compute_sighash(prehash, index)
                     sec == secp256k1_scalar_set_b32(seckey32)
                 IN IF ~sighash.ok
                    THEN [ret |-> 0, abort |-> FALSE, aggctx |-> flipped, partial |-> partial]
                    ELSE IF sec.overflow
                    THEN [ret |-> 0, abort |-> FALSE, aggctx |-> flipped, partial |-> partial]
                    ELSE [ret |-> 1, abort |-> FALSE,
                          aggctx |-> [flipped EXCEPT !.progress[index] = NONCE_PROGRESS_SIGNED],
                          partial |-> secp256k1_scalar_get_b32(
                              secp256k1_scalar_add(secp256k1_scalar_mul(sec.val, sighash.r),
                                                   flip.secnonce))]

\* ------------------------------------------------------------------------
\* Combiner
\* ------------------------------------------------------------------------
RECURSIVE SumPartials_NoOverflowCheck(_, _, _, _)
\* mutant: an overflowing partial is reduced and added
SumPartials_NoOverflowCheck(partial, n_sigs, i, s) ==
    IF i < n_sigs
    THEN SumPartials_NoOverflowCheck(partial, n_sigs, i + 1,
             secp256k1_scalar_add(s, secp256k1_scalar_set_b32(partial[i]).val))
    ELSE [ok |-> TRUE, s |-> s]

RECURSIVE SumPartials_SkipFirst(_, _, _, _)
\* mutant: the loop starts at 1
SumPartials_SkipFirst(partial, n_sigs, i, s) ==
    IF i = 0 /\ n_sigs > 0
    THEN SumPartials_SkipFirst(partial, n_sigs, 1, s)
    ELSE IF i < n_sigs
    THEN LET tmp == secp256k1_scalar_set_b32(partial[i])
         IN IF tmp.overflow THEN [ok |-> FALSE, s |-> s]
            ELSE SumPartials_SkipFirst(partial, n_sigs, i + 1, secp256k1_scalar_add(s, tmp.val))
    ELSE [ok |-> TRUE, s |-> s]

RECURSIVE SumPartials_SkipLast(_, _, _, _)
\* mutant: the loop stops one partial early
SumPartials_SkipLast(partial, n_sigs, i, s) ==
    IF i < n_sigs - 1
    THEN LET tmp == secp256k1_scalar_set_b32(partial[i])
         IN IF tmp.overflow THEN [ok |-> FALSE, s |-> s]
            ELSE SumPartials_SkipLast(partial, n_sigs, i + 1, secp256k1_scalar_add(s, tmp.val))
    ELSE [ok |-> TRUE, s |-> s]

RECURSIVE SumPartials(_, _, _, _)
\* the loop "for (i = 0; i < n_sigs; i++)" of combine, from i with sum s
SumPartials(partial, n_sigs, i, s) ==
    IF i < n_sigs
    THEN LET tmp == secp256k1_scalar_set_b32(partial[i])
         IN IF tmp.overflow THEN [ok |-> FALSE, s |-> s]
            ELSE SumPartials(partial, n_sigs, i + 1, secp256k1_scalar_add(s, tmp.val))
    ELSE [ok |-> TRUE, s |-> s]

\* "if we need to negate the public nonce": pubnonce_sum after combine
CombineNonce(pubnonce_sum) ==
    IF ~secp256k1_gej_has_quad_y_var(pubnonce_sum)
    THEN secp256k1_gej_neg(pubnonce_sum)
    ELSE pubnonce_sum

\* stale_x: the x coordinate the group element holds when it is the point at
\* infinity (whatever the last operation left there)
secp256k1_aggsig_combine_signatures(aggctx, sig64, partial, n_sigs, stale_x) ==
    IF n_sigs # aggctx.n_sigs
    THEN [ret |-> 0, aggctx |-> aggctx, sig64 |-> sig64]
    ELSE LET sum == SumPartials(partial, n_sigs, 0, 0)
         IN IF ~sum.ok
            THEN [ret |-> 0, aggctx |-> aggctx, sig64 |-> sig64]
            ELSE LET final == CombineNonce(aggctx.pubnonce_sum)
                     final_x == IF final = Infinity THEN stale_x ELSE final[1]
                 IN [ret |-> 1,
                     aggctx |-> [aggctx EXCEPT !.pubnonce_sum = final],
                     sig64 |-> <<secp256k1_scalar_get_b32(sum.s), final_x>>]

\* ------------------------------------------------------------------------
\* Verifier (build without USE_ENDOMORPHISM)
\* ------------------------------------------------------------------------
RECURSIVE secp256k1_ecmult_multi(_, _, _)
\* sum of sc[j]*pt[j] over the first n slots
secp256k1_ecmult_multi(sc, pt, n) ==
    IF n = 0 THEN Infinity
    ELSE secp256k1_gej_add_var(secp256k1_ecmult_multi(sc, pt, n - 1),
                               secp256k1_ecmult(sc[n - 1], pt[n - 1]))

\* number of roster terms of the chunk starting at roster index i
ChunkSize(M, n_pubkeys, i, offset) ==
    IF n_pubkeys - i < M - offset THEN n_pubkeys - i ELSE M - offset

RECURSIVE FillChunk(_, _, _, _, _, _, _, _)
\* the loop "for (j = 0; j < n; j++)", from j: ok is FALSE when a sighash overflows
FillChunk(prehash, pubkeys, i, offset, n, j, sc, pt) ==
    IF j < n
    THEN LET sighash == secp256k1_compute_sighash(prehash, i + j)
         IN IF ~sighash.ok THEN [ok |-> FALSE, sc |-> sc, pt |-> pt, j |-> j]
            ELSE FillChunk(prehash, pubkeys, i, offset, n, j + 1,
                           [sc EXCEPT ![j + offset] = secp256k1_scalar_negate(sighash.r)],
                           [pt EXCEPT ![j + offset] = pubkeys[i + j]])
    ELSE [ok |-> TRUE, sc |-> sc, pt |-> pt, j |-> j]

\* the slots the first j rounds of that loop have written
SlotsWritten(offset, j) == {k + offset : k \in 0..(j - 1)}

\* mutant: the offset is not reset after the first chunk
NextOffset_Keep(offset) == offset

\* offset of the next chunk ("offset = 0" at the end of the loop body)
NextOffset(offset) == 0

RECURSIVE ChunkLoop(_, _, _, _, _, _, _, _, _)
\* the loop "while (i < n_pubkeys)"
ChunkLoop(M, prehash, pubkeys, n_pubkeys, i, offset, sc, pt, pk_sum) ==
    IF i < n_pubkeys
    THEN LET n == ChunkSize(M, n_pubkeys, i, offset)
             filled == FillChunk(prehash, pubkeys, i, offset, n, 0, sc, pt)
         IN IF ~filled.ok THEN [ok |-> FALSE, pk_sum |-> pk_sum]
            ELSE ChunkLoop(M, prehash, pubkeys, n_pubkeys, i + n, NextOffset(offset),
                           filled.sc, filled.pt,
                           secp256k1_gej_add_var(pk_sum,
                               secp256k1_ecmult_multi(filled.sc, filled.pt, n + offset)))
    ELSE [ok |-> TRUE, pk_sum |-> pk_sum]

\* mutant: the overflow flag of the parsed s is ignored
secp256k1_aggsig_verify_NoOverflowCheck(M, stack, sig64, msg32, pubkeys, n_pubkeys) ==
    IF n_pubkeys = 0 THEN 0
    ELSE LET s == secp256k1_scalar_set_b32(sig64[1])
             fe_tmp == secp256k1_fe_set_b32(sig64[2])
             r_ge == secp256k1_ge_set_xquad(fe_tmp.fe)
         IN IF ~fe_tmp.ok THEN 0
            ELSE IF ~r_ge.ok THEN 0
            ELSE LET prehash == secp256k1_compute_prehash(pubkeys, n_pubkeys, r_ge.ge, msg32)
                     sc == [j \in 0..(M - 1) |-> IF j = 0 THEN s.val ELSE stack.sc]
                     pt == [j \in 0..(M - 1) |-> IF j = 0 THEN secp256k1_ge_const_g ELSE stack.pt]
                     loop == ChunkLoop(M, prehash, pubkeys, n_pubkeys, 0, 1, sc, pt, Infinity)
                 IN IF ~loop.ok THEN 0
                    ELSE IF secp256k1_gej_is_infinity(
                                secp256k1_gej_add_var(loop.pk_sum, secp256k1_gej_neg(r_ge.ge)))
                    THEN 1 ELSE 0

\* M: SECP256K1_ECMULT_MULTI_MAX_N; stack: what the uninitialised arrays
\* sc and pt hold on entry (one scalar and one point for every slot)
secp256k1_aggsig_verify(M, stack, sig64, msg32, pubkeys, n_pubkeys) ==
    IF n_pubkeys = 0 THEN 0
    ELSE LET s == secp256k1_scalar_set_b32(sig64[1])
             fe_tmp == secp256k1_fe_set_b32(sig64[2])
             r_ge == secp256k1_ge_set_xquad(fe_tmp.fe)
         IN IF s.overflow THEN 0
            ELSE IF ~fe_tmp.ok THEN 0
            ELSE IF ~r_ge.ok THEN 0
            ELSE LET prehash == secp256k1_compute_prehash(pubkeys, n_pubkeys, r_ge.ge, msg32)
                     sc == [j \in 0..(M - 1) |-> IF j = 0 THEN s.val ELSE stack.sc]
                     pt == [j \in 0..(M - 1) |-> IF j = 0 THEN secp256k1_ge_const_g ELSE stack.pt]
                     loop == ChunkLoop(M, prehash, pubkeys, n_pubkeys, 0, 1, sc, pt, Infinity)
                 IN IF ~loop.ok THEN 0
                    ELSE IF secp256k1_gej_is_infinity(
                                secp256k1_gej_add_var(loop.pk_sum, secp256k1_gej_neg(r_ge.ge)))
                    THEN 1 ELSE 0

\* ------------------------------------------------------------------------
\* Verifier (build with USE_ENDOMORPHISM)
\* ------------------------------------------------------------------------
\* a nontrivial cube root of unity of the field
ENDO_BETA == CHOOSE b \in 2..(FIELD_P - 1) : (b * b * b) % FIELD_P = 1

\* (beta*x, y)
secp256k1_gej_mul_lambda(a) ==
    IF a = Infinity THEN Infinity ELSE <<(ENDO_BETA * a[1]) % FIELD_P, a[2]>>

\* the scalar lambda with lambda*P = mul_lambda(P) on the whole group
ENDO_LAMBDA ==
    CHOOSE l \in Scalars :
        secp256k1_ecmult_gen(l) = secp256k1_gej_mul_lambda(secp256k1_ge_const_g)

\* whether s is above n/2
secp256k1_scalar_is_high(s) == s > GROUP_N \div 2

\* |s| for s read as a number in -(n-1)/2 .. (n-1)/2
ScalarMagnitude(s) == IF secp256k1_scalar_is_high(s) THEN GROUP_N - s ELSE s

\* the scalars of about half the width of n
HalfWidth == {s \in Scalars : ScalarMagnitude(s) * ScalarMagnitude(s) < GROUP_N}

SplitLambdaTable ==
    [a \in Scalars |->
        CHOOSE r \in HalfWidth \X HalfWidth : (r[1] + ENDO_LAMBDA * r[2]) % GROUP_N = a]

\* r1 + lambda*r2 = a (mod n), r1 and r2 of half width
secp256k1_scalar_split_lambda(a) ==
    [r1 |-> SplitLambdaTable[a][1], r2 |-> SplitLambdaTable[a][2]]

\* (s1, p1) on entry; s1*p1 + s2*p2 on return is the s1*p1 of entry
secp256k1_aggsig_endo_split(s1, p1) ==
    LET split == secp256k1_scalar_split_lambda(s1)
        p2 == secp256k1_gej_mul_lambda(p1)
        high1 == secp256k1_scalar_is_high(split.r1)
        high2 == secp256k1_scalar_is_high(split.r2)
    IN [s1 |-> IF high1 THEN secp256k1_scalar_negate(split.r1) ELSE split.r1,
        p1 |-> IF high1 THEN secp256k1_gej_neg(p1) ELSE p1,
        s2 |-> IF high2 THEN secp256k1_scalar_negate(split.r2) ELSE split.r2,
        p2 |-> IF high2 THEN secp256k1_gej_neg(p2) ELSE p2]

\* number of half-width terms of the chunk starting at roster index i
ChunkSizeEndo(M, n_pubkeys, i, offset) ==
    IF 2 * (n_pubkeys - i) < M - offset THEN 2 * (n_pubkeys - i) ELSE M - offset

RECURSIVE FillChunkEndo(_, _, _, _, _, _, _, _)
\* the loop "for (j = 0; j < n/2; j++)", from j
FillChunkEndo(prehash, pubkeys, i, offset, n, j, sc, pt) ==
    IF j < n \div 2
    THEN LET sighash == secp256k1_compute_sighash(prehash, i + j)
         IN IF ~sighash.ok THEN [ok |-> FALSE, sc |-> sc, pt |-> pt, j |-> j]
            ELSE LET split == secp256k1_aggsig_endo_split(
                                  secp256k1_scalar_negate(sighash.r), pubkeys[i + j])
                 IN FillChunkEndo(prehash, pubkeys, i, offset, n, j + 1,
                        [sc EXCEPT ![2 * j + offset] = split.s1,
                                   ![2 * j + 1 + offset] = split.s2],
                        [pt EXCEPT ![2 * j + offset] = split.p1,
                                   ![2 * j + 1 + offset] = split.p2])
    ELSE [ok |-> TRUE, sc |-> sc, pt |-> pt, j |-> j]

\* the slots the first j rounds of that loop have written
SlotsWrittenEndo(offset, j) ==
    UNION {{2 * k + offset, 2 * k + 1 + offset} : k \in 0..(j - 1)}

\* mutant: the cursor advances by the number of half-width terms
EndoAdvance_Whole(n) == n

\* "i += n / 2"
EndoAdvance(n) == n \div 2

\* ------------------------------------------------------------------------
\* State: one session and its caller
\* ------------------------------------------------------------------------
VARIABLES
    aggctx,     \* struct secp256k1_aggsig_context_struct
    status,     \* "live", "destroyed" (context_destroy ran) or "aborted" (a CHECK failed)
    seckeys,    \* caller: the secret key behind every roster entry
    msg32,      \* caller: the message of the ceremony
    partial,    \* caller: the array of partial signatures written by partial_sign
    sig64,      \* caller: the signature buffer of the last call, as the call left it
    call,       \* the last call: its name, its index (for combine and verify the
                \* count), the kind of array passed to combine, the value returned
    proto,      \* history: how far the calls made so far follow the protocol
    seed32,     \* caller: the seed the session was created with
    hist,       \* history of the secret nonces (see HistStart)
    vfy         \* the frame of a running secp256k1_aggsig_verify (see VfyIdle)

vars == <<aggctx, status, seckeys, msg32, partial, sig64, call, proto, seed32, hist, vfy>>

Indices == 0..(aggctx.n_sigs - 1)

\* roster entry of a secret key
PubkeyOf(seckey) == secp256k1_ecmult_gen(seckey)

\* rosters of n distinct keys: roster k gives index i the secret key i + k
Keyrings(n) == {[i \in 0..(n - 1) |-> i + k] : k \in 1..MaxKey}

\* seeds of the sessions explored.  Seed 1 makes the generator retry (its
\* first output overflows, a later one is zero) and yields two nonces whose
\* sum lacks quadratic-residue y; seed 4 yields nonces that generate_nonce
\* negates and whose sum has quadratic-residue y
Seeds == {3 * k + 1 : k \in 0..MaxSeed}

\* a signature buffer before the call that writes it: an encoding combine
\* never produces (both halves overflow)
FreshSig == <<GROUP_N, FIELD_P>>

\* gen, sign: the indices on which generate_nonce, then partial_sign (with the
\* matching key) have been called; comb: the array passed to the combine that
\* followed ("roster": the partials in roster order, "swap": two partials
\* holding different values exchanged); ok: every call so far was the next
\* call of such a run
ProtoStart == [gen |-> {}, sign |-> {}, comb |-> "none", ok |-> TRUE]
ProtoOff == [gen |-> {}, sign |-> {}, comb |-> "none", ok |-> FALSE]

\* gennonce[i]: secnonce[i] as generate_nonce(i) left it (0: not generated);
\* decisions: what the partial_sign calls that returned true did to their
\* secret nonce ("neg": negated it, "kept": did not);
\* touched: a partial_sign or a combine has been called
HistStart(n) ==
    [gennonce |-> [i \in 0..(n - 1) |-> 0],
     decisions |-> {},
     touched |-> FALSE]

\* no verify call is running
VfyIdle == [pc |-> "idle"]

\* a session fresh from context_create; the ceremony signs message 0
Init ==
    \E n \in 0..MaxN, seed \in Seeds, msg \in {0} :
        \E keys \in Keyrings(n) :
            /\ aggctx = secp256k1_aggsig_context_create(
                            [i \in 0..(n - 1) |-> PubkeyOf(keys[i])], n, seed)
            /\ status = "live"
            /\ seckeys = keys
            /\ msg32 = msg
            /\ partial = [i \in 0..(n - 1) |-> 0]
            /\ sig64 = FreshSig
            /\ call = [name |-> "create", index |-> n, arg |-> "", ret |-> 1]
            /\ proto = ProtoStart
            /\ seed32 = seed
            /\ hist = HistStart(n)
            /\ vfy = VfyIdle

Destroy ==
    /\ status = "live"
    /\ aggctx' = secp256k1_aggsig_context_destroy(aggctx)
    /\ status' = "destroyed"
    /\ sig64' = FreshSig
    /\ call' = [name |-> "destroy", index |-> 0, arg |-> "", ret |-> 1]
    /\ UNCHANGED <<seckeys, msg32, partial, proto, seed32, hist, vfy>>

GenerateNonce(index) ==
    /\ status = "live"
    /\ LET res == secp256k1_aggsig_generate_nonce(aggctx, index)
       IN /\ aggctx' = res.aggctx
          /\ call' = [name |-> "generate_nonce", index |-> index, arg |-> "", ret |-> res.ret]
          /\ hist' = IF res.ret = 1
                     THEN [hist EXCEPT !.gennonce[index] = res.aggctx.secnonce[index]]
                     ELSE hist
    /\ sig64' = FreshSig
    /\ proto' = IF /\ proto.ok
                   /\ index < aggctx.n_sigs
                   /\ index \notin proto.gen
                   /\ proto.sign = {}
                   /\ proto.comb = "none"
                THEN [proto EXCEPT !.gen = @ \cup {index}]
                ELSE ProtoOff
    /\ UNCHANGED <<status, seckeys, msg32, partial, seed32, vfy>>

\* secret keys a caller may pass for an index: the matching one and, for the
\* first two indices, an overflowing encoding
SeckeyInputs(index) ==
    IF index < aggctx.n_sigs
    THEN {seckeys[index]} \cup (IF index < 2 THEN {GROUP_N} ELSE {})
    ELSE {1}

\* the history after partial_sign(index) returned ret: the call negates
\* secnonce[index] when it passes the state check and pubnonce_sum lacks
\* quadratic-residue y
PartialSignHist(index, ret) ==
    LET reached == index < aggctx.n_sigs /\ PartialSignStateOk(aggctx, index)
        negated == reached /\ ~secp256k1_gej_has_quad_y_var(aggctx.pubnonce_sum)
    IN [hist EXCEPT
           !.touched = TRUE,
           !.decisions = IF ret = 1
                         THEN @ \cup {IF negated THEN "neg" ELSE "kept"}
                         ELSE @]

PartialSign(index, seckey32) ==
    /\ status = "live"
    /\ LET old == IF index < aggctx.n_sigs THEN partial[index] ELSE 0
           res == secp256k1_aggsig_partial_sign(aggctx, old, msg32, seckey32, index)
       IN /\ aggctx' = res.aggctx
          /\ status' = IF res.abort THEN "aborted" ELSE "live"
          /\ partial' = IF index < aggctx.n_sigs
                        THEN [partial EXCEPT ![index] = res.partial]
                        ELSE partial
          /\ call' = [name |-> "partial_sign", index |-> index, arg |-> "", ret |-> res.ret]
          /\ hist' = PartialSignHist(index, res.ret)
    /\ sig64' = FreshSig
    /\ proto' = IF /\ proto.ok
                   /\ index < aggctx.n_sigs
                   /\ proto.gen = Indices
                   /\ index \notin proto.sign
                   /\ proto.comb = "none"
                   /\ seckey32 = seckeys[index]
                THEN [proto EXCEPT !.sign = @ \cup {index}]
                ELSE ProtoOff
    /\ UNCHANGED <<seckeys, msg32, seed32, vfy>>

\* the caller's partials as an array of n_sigs entries, in roster order
RosterOrder(n_sigs) ==
    [i \in 0..(n_sigs - 1) |-> IF i < aggctx.n_sigs THEN partial[i] ELSE 0]

Swap(arr, a, b) == [arr EXCEPT ![a] = arr[b], ![b] = arr[a]]

\* arrays a caller may pass to combine: the partials in roster order and, when
\* the count is the session's, two of them swapped or one of them replaced by
\* the encoding of n
CombineInputs(n_sigs) ==
    {[kind |-> "roster", partial |-> RosterOrder(n_sigs)]}
    \cup {[kind |-> "swap", partial |-> Swap(RosterOrder(n_sigs), p[1], p[2])] :
              p \in {q \in Indices \X Indices : n_sigs = aggctx.n_sigs /\ q[1] < q[2]}}
    \cup {[kind |-> "overflow", partial |-> [RosterOrder(n_sigs) EXCEPT ![k] = GROUP_N]] :
              k \in {j \in Indices : n_sigs = aggctx.n_sigs}}

\* x coordinates that may be left in a group element that is the point at infinity
StaleXs == IF CombineNonce(aggctx.pubnonce_sum) = Infinity THEN 0..1 ELSE {0}

Combine(n_sigs, arg, stale_x) ==
    /\ status = "live"
    /\ LET res == secp256k1_aggsig_combine_signatures(aggctx, FreshSig, arg.partial, n_sigs,
                                                      stale_x)
       IN /\ aggctx' = res.aggctx
          /\ sig64' = res.sig64
          /\ call' = [name |-> "combine", index |-> n_sigs, arg |-> arg.kind, ret |-> res.ret]
    /\ proto' = IF /\ proto.ok
                   /\ proto.gen = Indices
                   /\ proto.sign = Indices
                   /\ proto.comb = "none"
                   /\ n_sigs = aggctx.n_sigs
                   /\ arg.kind = "swap" => arg.partial # RosterOrder(n_sigs)
                   /\ arg.kind \in {"roster", "swap"}
                THEN [proto EXCEPT !.comb = arg.kind]
                ELSE ProtoOff
    /\ hist' = [hist EXCEPT !.touched = TRUE]
    /\ UNCHANGED <<status, seckeys, msg32, partial, seed32, vfy>>

Next ==
    \/ \E index \in 0..MaxN : GenerateNonce(index)
    \/ \E index \in 0..MaxN : \E seckey32 \in SeckeyInputs(index) : PartialSign(index, seckey32)
    \/ \E n_sigs \in 0..MaxN : \E arg \in CombineInputs(n_sigs) : \E stale_x \in StaleXs :
           Combine(n_sigs, arg, stale_x)
    \/ Destroy

Spec == Init /\ [][Next]_vars

TypeOK ==
    /\ status \in {"live", "destroyed", "aborted"}
    /\ aggctx.n_sigs \in 0..MaxN
    /\ aggctx.pubnonce_sum \in GroupElems
    /\ \A i \in Indices : aggctx.secnonce[i] \in Scalars /\ partial[i] \in ScalarStrings

\* ------------------------------------------------------------------------
\* Verification of arbitrary signatures (the verifier is a pure function)
\* ------------------------------------------------------------------------
\* contents of the verifier's uninitialised stack arrays
Stacks == {[sc |-> 1, pt |-> secp256k1_ge_const_g], [sc |-> 0, pt |-> Infinity]}

InitV ==
    \E n \in 0..MaxN, msg \in 0..MaxMsg, s \in ScalarStrings, rx \in FieldStrings :
        \E keys \in Keyrings(n) :
            /\ aggctx = secp256k1_aggsig_context_create(
                            [i \in 0..(n - 1) |-> PubkeyOf(keys[i])], n, 0)
            /\ status = "live"
            /\ seckeys = keys
            /\ msg32 = msg
            /\ partial = [i \in 0..(n - 1) |-> 0]
            /\ sig64 = <<s, rx>>
            /\ call = [name |-> "create", index |-> n, arg |-> "", ret |-> 1]
            /\ proto = ProtoOff
            /\ seed32 = 0
            /\ hist = HistStart(n)
            /\ vfy = VfyIdle

\* verify(sig64, msg32, roster) in a build whose SECP256K1_ECMULT_MULTI_MAX_N is M
VerifySig(M, stack) ==
    /\ call' = [name |-> "verify", index |-> M, arg |-> "",
                ret |-> secp256k1_aggsig_verify(M, stack, sig64, msg32, aggctx.pubkeys,
                                                aggctx.n_sigs)]
    /\ UNCHANGED <<aggctx, status, seckeys, msg32, partial, sig64, proto, seed32, hist, vfy>>

NextV == \E M \in 2..MaxM : \E stack \in Stacks : VerifySig(M, stack)

SpecV == InitV /\ [][NextV]_vars

\* ------------------------------------------------------------------------
\* The per-index challenge on arbitrary indices (compute_sighash is a pure
\* function)
\* ------------------------------------------------------------------------
\* indices with one, two and three 7-bit limbs, zero limbs included
IndexInputs ==
    (0..MaxIndex) \cup {a + 128 * b + 16384 * c : a, b, c \in {0, 1, 127}}

InitI ==
    /\ aggctx = secp256k1_aggsig_context_create(<<>>, 0, 0)
    /\ status = "live"
    /\ seckeys = <<>>
    /\ msg32 = 0
    /\ partial = <<>>
    /\ sig64 = FreshSig
    /\ call = [name |-> "create", index |-> 0, arg |-> <<>>, ret |-> 1]
    /\ proto = ProtoOff
    /\ seed32 = 0
    /\ hist = HistStart(0)
    /\ vfy = VfyIdle

\* compute_sighash(&r, prehash, index); arg: the bytes it hashed
ComputeSighash(prehash, index) ==
    /\ call' = [name |-> "compute_sighash", index |-> index,
                arg |-> SighashInput(prehash, index),
                ret |-> IF secp256k1_compute_sighash(prehash, index).ok THEN 1 ELSE 0]
    /\ UNCHANGED <<aggctx, status, seckeys, msg32, partial, sig64, proto, seed32, hist, vfy>>

\* the prehash is the smallest or the largest digest
NextI ==
    \E prehash \in {0, SCALAR_B32 - 1} : \E index \in IndexInputs :
        ComputeSighash(prehash, index)

SpecI == InitI /\ [][NextI]_vars

\* ------------------------------------------------------------------------
\* The verifier pass by pass: one step for the code before the loop
\* "while (i < n_pubkeys)", one for every pass of the loop, one for the code
\* after it, in the build with (endo) and without USE_ENDOMORPHISM
\* ------------------------------------------------------------------------
\* bytes 32..63 handed to verify: every x of a curve point, one x of none and
\* one that is not below p
RxInputs ==
    {x \in 0..(FIELD_P - 1) : secp256k1_ge_set_xquad(x).ok}
        \cup {CHOOSE x \in 0..(FIELD_P - 1) : ~secp256k1_ge_set_xquad(x).ok}
        \cup {FIELD_P}

InitL ==
    \E n \in 0..MaxN, s \in ScalarStrings, rx \in RxInputs :
        \E keys \in Keyrings(n) :
            /\ aggctx = secp256k1_aggsig_context_create(
                            [i \in 0..(n - 1) |-> PubkeyOf(keys[i])], n, 0)
            /\ status = "live"
            /\ seckeys = keys
            /\ msg32 = 0
            /\ partial = [i \in 0..(n - 1) |-> 0]
            /\ sig64 = <<s, rx>>
            /\ call = [name |-> "create", index |-> n, arg |-> "", ret |-> 1]
            /\ proto = ProtoOff
            /\ seed32 = 0
            /\ hist = HistStart(n)
            /\ vfy = VfyIdle

\* the frame on entry: sc and pt hold what the stack held
VerifyFrame(endo, M, stack) ==
    [pc |-> "done", endo |-> endo, M |-> M, stack |-> stack, i |-> 0, offset |-> 0,
     sc |-> [j \in 0..(M - 1) |-> stack.sc], pt |-> [j \in 0..(M - 1) |-> stack.pt],
     pk_sum |-> Infinity, prehash |-> 0, r_ge |-> Infinity,
     iter |-> 0,        \* passes of the loop completed
     terms |-> 0,       \* terms handed to multi-exp by the last pass
     written |-> {},    \* slots of sc and pt written by the last step
     stale |-> {},      \* slots handed to multi-exp by the last pass that were not
                        \* written since the call before
     ret |-> 0]

\* from the entry of verify to the first test of the loop condition
VerifyEnter(endo, M, stack) ==
    /\ vfy.pc = "idle"
    /\ LET s == secp256k1_scalar_set_b32(sig64[1])
           fe_tmp == secp256k1_fe_set_b32(sig64[2])
           r_ge == secp256k1_ge_set_xquad(fe_tmp.fe)
           frame == VerifyFrame(endo, M, stack)
           split == secp256k1_aggsig_endo_split(s.val, secp256k1_ge_const_g)
       IN vfy' = IF aggctx.n_sigs = 0 THEN frame
                 ELSE IF s.overflow THEN frame
                 ELSE IF ~fe_tmp.ok THEN frame
                 ELSE IF ~r_ge.ok THEN frame
                 ELSE IF endo
                 THEN [frame EXCEPT !.pc = "loop",
                                    !.sc[0] = split.s1, !.sc[1] = split.s2,
                                    !.pt[0] = split.p1, !.pt[1] = split.p2,
                                    !.offset = 2,
                                    !.written = {0, 1},
                                    !.r_ge = r_ge.ge,
                                    !.prehash = secp256k1_compute_prehash(
                                        aggctx.pubkeys, aggctx.n_sigs, r_ge.ge, msg32)]
                 ELSE [frame EXCEPT !.pc = "loop",
                                    !.sc[0] = s.val,
                                    !.pt[0] = secp256k1_ge_const_g,
                                    !.offset = 1,
                                    !.written = {0},
                                    !.r_ge = r_ge.ge,
                                    !.prehash = secp256k1_compute_prehash(
                                        aggctx.pubkeys, aggctx.n_sigs, r_ge.ge, msg32)]
    /\ UNCHANGED <<aggctx, status, seckeys, msg32, partial, sig64, call, proto, seed32, hist>>

\* one pass of the loop
VerifyChunk ==
    /\ vfy.pc = "loop"
    /\ vfy.i < aggctx.n_sigs
    /\ \E n \in {IF vfy.endo
                  THEN ChunkSizeEndo(vfy.M, aggctx.n_sigs, vfy.i, vfy.offset)
                  ELSE ChunkSize(vfy.M, aggctx.n_sigs, vfy.i, vfy.offset)} :
       \E filled \in {IF vfy.endo
                       THEN FillChunkEndo(vfy.prehash, aggctx.pubkeys, vfy.i, vfy.offset,
                                          n, 0, vfy.sc, vfy.pt)
                       ELSE FillChunk(vfy.prehash, aggctx.pubkeys, vfy.i, vfy.offset,
                                      n, 0, vfy.sc, vfy.pt)} :
       LET written == IF vfy.endo THEN SlotsWrittenEndo(vfy.offset, filled.j)
                      ELSE SlotsWritten(vfy.offset, filled.j)
           fresh == written \cup (IF vfy.iter = 0 THEN vfy.written ELSE {})
           terms == n + vfy.offset
       IN vfy' = IF ~filled.ok
                 THEN [vfy EXCEPT !.pc = "done", !.ret = 0,
                                  !.sc = filled.sc, !.pt = filled.pt,
                                  !.written = written]
                 ELSE [vfy EXCEPT !.sc = filled.sc, !.pt = filled.pt,
                                  !.pk_sum = secp256k1_gej_add_var(@,
                                      secp256k1_ecmult_multi(filled.sc, filled.pt, terms)),
                                  !.i = @ + (IF vfy.endo THEN EndoAdvance(n) ELSE n),
                                  !.offset = NextOffset(@),
                                  !.iter = @ + 1,
                                  !.terms = terms,
                                  !.written = written,
                                  !.stale = (0..(terms - 1)) \ fresh]
    /\ UNCHANGED <<aggctx, status, seckeys, msg32, partial, sig64, call, proto, seed32, hist>>

\* from the exit of the loop to the return
VerifyFinish ==
    /\ vfy.pc = "loop"
    /\ ~(vfy.i < aggctx.n_sigs)
    /\ vfy' = [vfy EXCEPT !.pc = "done",
                          !.written = {},
                          !.ret = IF secp256k1_gej_is_infinity(
                                       secp256k1_gej_add_var(vfy.pk_sum,
                                                             secp256k1_gej_neg(vfy.r_ge)))
                                  THEN 1 ELSE 0]
    /\ UNCHANGED <<aggctx, status, seckeys, msg32, partial, sig64, call, proto, seed32, hist>>

NextL ==
    \/ \E endo \in BOOLEAN : \E M \in 2..MaxM : \E stack \in Stacks :
           VerifyEnter(endo, M, stack)
    \/ VerifyChunk
    \/ VerifyFinish

SpecL == InitL /\ [][NextL]_vars

\* a call of verify that has started runs on
SpecLF == InitL /\ [][NextL]_vars /\ WF_vars(NextL)

\* ------------------------------------------------------------------------
\* Properties
\* ------------------------------------------------------------------------
AllKnown == \A i \in Indices : aggctx.progress[i] # NONCE_PROGRESS_UNKNOWN

AllSigned == \A i \in Indices : aggctx.progress[i] = NONCE_PROGRESS_SIGNED

\* the representative of the aggregate nonce with quadratic-residue y
AggregateNonce == CombineNonce(aggctx.pubnonce_sum)

\* the challenge of index i for the session's roster, aggregate nonce and message
SighashOf(i) ==
    secp256k1_compute_sighash(
        secp256k1_compute_prehash(aggctx.pubkeys, aggctx.n_sigs, AggregateNonce, msg32), i)

\* verify accepts the caller's sig64 for the session's message and roster,
\* whatever the chunk size and the garbage on the verifier's stack
Verifies ==
    \A M \in 2..MaxM : \A stack \in Stacks :
        secp256k1_aggsig_verify(M, stack, sig64, msg32, aggctx.pubkeys, aggctx.n_sigs) = 1

\* once every nonce is generated: the aggregate nonce is not the point at
\* infinity and no sighash overflows
NoOverflowNoInfinity ==
    /\ aggctx.pubnonce_sum # Infinity
    /\ \A i \in Indices : SighashOf(i).ok

\* C1: in a run create; generate_nonce on every index; partial_sign on every
\* index with the matching key; combine of the partials in roster order, with
\* N >= 1, no sighash overflow and an aggregate nonce that is not the point at
\* infinity, every call returns true and verify accepts the sig64 produced.
C1_RoundTrip ==
    (/\ status = "live"
     /\ aggctx.n_sigs >= 1
     /\ proto.ok
     /\ proto.comb \in {"none", "roster"}
     /\ call.name # "create"
     /\ proto.gen = Indices => NoOverflowNoInfinity)
    => (/\ call.ret = 1
        /\ proto.comb = "roster" => Verifies)

C1_Witness ==
    /\ status = "live"
    /\ aggctx.n_sigs >= 2
    /\ proto.ok
    /\ proto.comb = "roster"
    /\ call.name = "combine"
    /\ call.ret = 1
    /\ Verifies

\* C2: once partial_sign(i) has returned true, progress[i] is SIGNED for good,
\* every later partial_sign(i) returns false and leaves the session unchanged;
\* a partial_sign(i) that returns true found progress[i] not SIGNED, so at most
\* one call succeeds per index.
C2_NonceSingleUse ==
    [][/\ (status = "live" /\ call'.name = "partial_sign" /\ call'.index < aggctx.n_sigs)
          => /\ aggctx.progress[call'.index] = NONCE_PROGRESS_SIGNED
                => (call'.ret = 0 /\ aggctx' = aggctx /\ status' = "live")
             /\ call'.ret = 1
                => /\ aggctx.progress[call'.index] # NONCE_PROGRESS_SIGNED
                   /\ aggctx'.progress[call'.index] = NONCE_PROGRESS_SIGNED
       /\ (status = "live" /\ status' # "destroyed")
          => \A i \in Indices : aggctx.progress[i] = NONCE_PROGRESS_SIGNED
                                   => aggctx'.progress[i] = NONCE_PROGRESS_SIGNED
      ]_vars

C2_Witness ==
    /\ status = "live"
    /\ call.name = "partial_sign"
    /\ call.ret = 0
    /\ call.index < aggctx.n_sigs
    /\ aggctx.progress[call.index] = NONCE_PROGRESS_SIGNED

\* C3: partial_sign(i) returns true only if, when it is called, no index is
\* UNKNOWN and progress[i] is exactly OURS; hence an index is SIGNED only in
\* a session where every nonce has been generated.
C3_SigningGate ==
    /\ [](status = "live" => ((\E i \in Indices : aggctx.progress[i] = NONCE_PROGRESS_SIGNED)
                               => AllKnown))
    /\ [][(status = "live" /\ call'.name = "partial_sign" /\ call'.ret = 1)
          => /\ AllKnown
             /\ call'.index < aggctx.n_sigs
             /\ aggctx.progress[call'.index] = NONCE_PROGRESS_OURS
         ]_vars

C3_Witness ==
    /\ status = "live"
    /\ aggctx.n_sigs >= 2
    /\ call.name = "partial_sign"
    /\ call.ret = 1
    /\ aggctx.progress[call.index] = NONCE_PROGRESS_SIGNED
    /\ AllKnown

\* C4: while the session lives, progress[j] changes only from UNKNOWN to OURS,
\* by a generate_nonce(j) that returns true, or from OURS to SIGNED, by a
\* partial_sign(j) that returns true; SIGNED is never left, OTHER never
\* reached, and no call changes the progress of an index other than its own.
C4_StateMachine ==
    /\ [](status = "live" => \A j \in Indices : aggctx.progress[j] # NONCE_PROGRESS_OTHER)
    /\ [][(status = "live" /\ status' # "destroyed")
          => \A j \in Indices :
                 aggctx'.progress[j] # aggctx.progress[j]
                 => \/ /\ aggctx.progress[j] = NONCE_PROGRESS_UNKNOWN
                       /\ aggctx'.progress[j] = NONCE_PROGRESS_OURS
                       /\ call' = [name |-> "generate_nonce", index |-> j, arg |-> "", ret |-> 1]
                    \/ /\ aggctx.progress[j] = NONCE_PROGRESS_OURS
                       /\ aggctx'.progress[j] = NONCE_PROGRESS_SIGNED
                       /\ call' = [name |-> "partial_sign", index |-> j, arg |-> "", ret |-> 1]
         ]_vars

C4_Witness ==
    /\ status = "live"
    /\ aggctx.n_sigs >= 2
    /\ \E i, j \in Indices : /\ aggctx.progress[i] = NONCE_PROGRESS_SIGNED
                             /\ aggctx.progress[j] = NONCE_PROGRESS_OURS

\* C5: generate_nonce(i) with i >= N or progress[i] # UNKNOWN returns false
\* and leaves the session (progress, secnonce, pubnonce_sum, RNG) unchanged.
C5_GenerateNonceRejects ==
    [][(/\ status = "live"
        /\ call'.name = "generate_nonce"
        /\ \/ call'.index >= aggctx.n_sigs
           \/ aggctx.progress[call'.index] # NONCE_PROGRESS_UNKNOWN)
       => (call'.ret = 0 /\ aggctx' = aggctx)
      ]_vars

C5_Witness ==
    /\ status = "live"
    /\ call.name = "generate_nonce"
    /\ call.ret = 0
    /\ call.index < aggctx.n_sigs
    /\ aggctx.progress[call.index] = NONCE_PROGRESS_OURS

\* C6: a partial_sign(i) that returns false leaves progress, pubnonce_sum, the
\* roster, the RNG, every secnonce[j] with j # i and the output partial
\* unchanged; secnonce[i] is unchanged or negated, and it is unchanged when the
\* call failed on the state check (i out of range, some index UNKNOWN, or
\* progress[i] # OURS).
C6_PartialSignFailure ==
    [][(status = "live" /\ status' = "live" /\ call'.name = "partial_sign" /\ call'.ret = 0)
       => /\ aggctx'.progress = aggctx.progress
          /\ aggctx'.pubnonce_sum = aggctx.pubnonce_sum
          /\ aggctx'.pubkeys = aggctx.pubkeys
          /\ aggctx'.rng = aggctx.rng
          /\ aggctx'.n_sigs = aggctx.n_sigs
          /\ partial' = partial
          /\ \A j \in Indices :
                 j # call'.index => aggctx'.secnonce[j] = aggctx.secnonce[j]
          /\ IF call'.index < aggctx.n_sigs /\ PartialSignStateOk(aggctx, call'.index)
             THEN aggctx'.secnonce[call'.index]
                      \in {aggctx.secnonce[call'.index],
                           secp256k1_scalar_negate(aggctx.secnonce[call'.index])}
             ELSE aggctx' = aggctx
      ]_vars

\* a failed partial_sign that passed the state check with an aggregate nonce
\* lacking quadratic-residue y: the call negated secnonce[i] and failed on an
\* overflow
C6_Witness ==
    /\ status = "live"
    /\ call.name = "partial_sign"
    /\ call.ret = 0
    /\ call.index < aggctx.n_sigs
    /\ PartialSignStateOk(aggctx, call.index)
    /\ ~secp256k1_gej_has_quad_y_var(aggctx.pubnonce_sum)

\* C7: combine returns false when the count differs from N or when a partial
\* encodes an integer >= n, and true otherwise; when it returns false sig64 is
\* not written and the session is unchanged.
C7_CombineRejects ==
    [][call'.name = "combine" =>
       \A n_sigs \in {call'.index} : \A arg \in CombineInputs(n_sigs) : \A stale_x \in StaleXs :
           (arg.kind = call'.arg /\ Combine(n_sigs, arg, stale_x))
           => /\ call'.ret = 0
                 <=> \/ n_sigs # aggctx.n_sigs
                     \/ \E k \in 0..(n_sigs - 1) : arg.partial[k] >= GROUP_N
              /\ call'.ret = 0 => (sig64' = FreshSig /\ aggctx' = aggctx)
      ]_vars

C7_Witness ==
    /\ status = "live"
    /\ aggctx.n_sigs >= 1
    /\ AllSigned
    /\ call = [name |-> "combine", index |-> aggctx.n_sigs, arg |-> "overflow", ret |-> 0]
    /\ sig64 = FreshSig

\* the sig64 combine writes for the caller's partials in roster order
RosterOrderSig ==
    secp256k1_aggsig_combine_signatures(aggctx, FreshSig, RosterOrder(aggctx.n_sigs),
                                        aggctx.n_sigs, 0).sig64

\* a complete run (every index nonce-generated, then signed with the matching
\* key) followed by a combine of the partials with two different ones swapped
SwappedRun ==
    /\ status = "live"
    /\ aggctx.n_sigs >= 2
    /\ proto.ok
    /\ proto.comb = "swap"
    /\ AllSigned

\* C8 as stated: after a complete run, a combine with two different partials
\* swapped fails or yields a sig64 that verify rejects.
C8_SwapRejected ==
    SwappedRun => \/ call.ret = 0
                  \/ \A M \in 2..MaxM : \A stack \in Stacks :
                         secp256k1_aggsig_verify(M, stack, sig64, msg32, aggctx.pubkeys,
                                                 aggctx.n_sigs) = 0

\* C8 amended: after a complete run, a combine with two different partials
\* swapped returns true and writes the same sig64 as the roster-order
\* arrangement, a sig64 that verify accepts.
C8_SwapSameSignature ==
    SwappedRun => /\ call.ret = 1
                  /\ sig64 = RosterOrderSig
                  /\ Verifies

C8_Witness ==
    /\ SwappedRun
    /\ call.name = "combine"
    /\ call.ret = 1
    /\ partial[0] # partial[1]
    /\ Verifies

\* C9: on a session created with N = 0 verify returns false and
\* generate_nonce, partial_sign and combine with count 0 all return false.
C9_EmptyRoster ==
    (status = "live" /\ aggctx.n_sigs = 0)
    => /\ \A M \in 2..MaxM : \A stack \in Stacks :
              secp256k1_aggsig_verify(M, stack, sig64, msg32, aggctx.pubkeys, 0) = 0
       /\ call.name \in {"generate_nonce", "partial_sign"} => call.ret = 0
       /\ (call.name = "combine" /\ call.index = 0) => call.ret = 0

\* the terms -e_i*P_i of indices i..n_pubkeys-1, summed
RECURSIVE ChallengeSum(_, _, _, _)
ChallengeSum(prehash, pubkeys, n_pubkeys, i) ==
    IF i < n_pubkeys
    THEN secp256k1_gej_add_var(
             secp256k1_ecmult(
                 secp256k1_scalar_negate(secp256k1_compute_sighash(prehash, i).r),
                 pubkeys[i]),
             ChallengeSum(prehash, pubkeys, n_pubkeys, i + 1))
    ELSE Infinity

\* s < n, Rx is canonical and the x of a point R with quadratic-residue y,
\* no e_i overflows, and s*G - sum of e_i*P_i = R
SignatureEquation(sig, msg, pubkeys, n_pubkeys) ==
    /\ sig[1] < GROUP_N
    /\ sig[2] < FIELD_P
    /\ \E R \in CurvePoints :
           /\ R[1] = sig[2]
           /\ secp256k1_fe_is_quad_var(R[2])
           /\ LET prehash == secp256k1_compute_prehash(pubkeys, n_pubkeys, R, msg)
              IN /\ \A i \in 0..(n_pubkeys - 1) : secp256k1_compute_sighash(prehash, i).ok
                 /\ secp256k1_gej_add_var(secp256k1_ecmult_gen(sig[1]),
                                          ChallengeSum(prehash, pubkeys, n_pubkeys, 0)) = R

\* C10: for N >= 1 verify returns true exactly when s < n, Rx is a canonical
\* field element that is the x of a curve point R with quadratic-residue y, no
\* e_i overflows and s*G - sum of e_i*P_i = R, and so returns the same for
\* every chunk size M >= 2.
C10_VerifyEquation ==
    (call.name = "verify" /\ aggctx.n_sigs >= 1)
    => (call.ret = 1 <=> SignatureEquation(sig64, msg32, aggctx.pubkeys, aggctx.n_sigs))

\* an accepted signature of a roster that takes more than one chunk
C10_Witness ==
    /\ call.name = "verify"
    /\ call.ret = 1
    /\ aggctx.n_sigs >= 2
    /\ call.index <= aggctx.n_sigs

\* ------------------------------------------------------------------------
\* The session across combine and signing retries
\* ------------------------------------------------------------------------
\* C11: a combine call, successful or not, leaves the session (progress,
\* secnonce, roster, RNG, pubnonce_sum) exactly as it was before the call.
C11_CombineReadOnly ==
    [][(status = "live" /\ call'.name = "combine") => aggctx' = aggctx]_vars

\* partial_sign(index) gets past the state check and negates secnonce[index]
NegatesNonce(ctx, index) ==
    /\ index < ctx.n_sigs
    /\ PartialSignStateOk(ctx, index)
    /\ ~secp256k1_gej_has_quad_y_var(ctx.pubnonce_sum)

\* C12: once a partial_sign(i) call has negated secnonce[i], whether it
\* returned true or failed on a sighash or seckey overflow, the state check
\* rejects every later partial_sign(i), so no call negates secnonce[i] again.
C12_NegationAtMostOnce ==
    [][(/\ status = "live"
        /\ status' = "live"
        /\ call'.name = "partial_sign"
        /\ NegatesNonce(aggctx, call'.index))
       => ~NegatesNonce(aggctx', call'.index)
      ]_vars

\* C13: over any interleaving of generate_nonce, partial_sign and combine
\* calls, all the partial_sign calls of a session that returned true took the
\* same decision: either every one negated its secret nonce or none did.
C13_ConsistentFlip ==
    status = "live" => Cardinality(hist.decisions) <= 1

\* sum of nonce[j]*G over the indices j >= i of ctx whose progress is not UNKNOWN
RECURSIVE NonceSum(_, _, _)
NonceSum(ctx, nonce, i) ==
    IF i < ctx.n_sigs
    THEN secp256k1_gej_add_var(
             IF ctx.progress[i] # NONCE_PROGRESS_UNKNOWN
             THEN secp256k1_ecmult_gen(nonce[i])
             ELSE Infinity,
             NonceSum(ctx, nonce, i + 1))
    ELSE Infinity

\* C14: a generate_nonce(i) that returns true leaves a secnonce[i] in 1..n-1
\* whose point secnonce[i]*G has quadratic-residue y and is the drawn point or
\* its negation, and adds exactly that point to pubnonce_sum; as long as no
\* partial_sign or combine has been called, pubnonce_sum is the sum of
\* secnonce[j]*G over the indices j that are not UNKNOWN.
C14_NonceCanonical ==
    /\ []((status = "live" /\ ~hist.touched)
          => aggctx.pubnonce_sum = NonceSum(aggctx, aggctx.secnonce, 0))
    /\ [][(status = "live" /\ call'.name = "generate_nonce" /\ call'.ret = 1)
          => LET k == aggctx'.secnonce[call'.index]
                 R == secp256k1_ecmult_gen(DrawNonce(aggctx.rng).secnonce)
             IN /\ k \in 1..(GROUP_N - 1)
                /\ secp256k1_gej_has_quad_y_var(secp256k1_ecmult_gen(k))
                /\ secp256k1_ecmult_gen(k) \in {R, secp256k1_gej_neg(R)}
                /\ aggctx'.pubnonce_sum
                       = secp256k1_gej_add_var(aggctx.pubnonce_sum, secp256k1_ecmult_gen(k))
         ]_vars

\* every nonce generated, no call but generate_nonce made so far, and a
\* secret nonce that generate_nonce negated
C14_Witness ==
    /\ status = "live"
    /\ aggctx.n_sigs >= 2
    /\ AllKnown
    /\ ~hist.touched
    /\ call.name = "generate_nonce"
    /\ call.ret = 1
    /\ aggctx.secnonce[call.index] # DrawNonce(CHOOSE r \in ScalarStrings :
           secp256k1_rfc6979_hmac_sha256_generate(r).rng = aggctx.rng).secnonce

\* a run that follows the protocol up to and including the N partial_sign
\* calls, in which the aggregate of the generated nonces lacks
\* quadratic-residue y (and is not the point at infinity)
FlipScenario ==
    /\ status = "live"
    /\ aggctx.n_sigs >= 1
    /\ proto.ok
    /\ proto.sign = Indices
    /\ NonceSum(aggctx, hist.gennonce, 0) # Infinity
    /\ ~secp256k1_gej_has_quad_y_var(NonceSum(aggctx, hist.gennonce, 0))

\* the indices whose secret nonce is the one generate_nonce left
RetainedSign == {i \in Indices : aggctx.secnonce[i] = hist.gennonce[i]}

\* C15 as stated: in the flip scenario the signature of the complete run
\* verifies (no sighash overflowing) and exactly one secret nonce retains the
\* sign it had after nonce generation.
C15_ExactlyOneRetains ==
    FlipScenario
    => /\ (proto.comb = "roster" /\ NoOverflowNoInfinity) => Verifies
       /\ Cardinality(RetainedSign) = 1

\* C15 amended: in the flip scenario the signature of the complete run
\* verifies (no sighash overflowing) and no secret nonce retains the sign it
\* had after nonce generation: every one of the N is negated.
C15_AllNegated ==
    FlipScenario
    => /\ (proto.comb = "roster" /\ NoOverflowNoInfinity) => Verifies
       /\ \A i \in Indices :
              aggctx.secnonce[i] = secp256k1_scalar_negate(hist.gennonce[i])

C15_Witness ==
    /\ FlipScenario
    /\ aggctx.n_sigs >= 2
    /\ proto.comb = "roster"
    /\ call.name = "combine"
    /\ call.ret = 1
    /\ AllSigned
    /\ RetainedSign = {}
    /\ Verifies

\* ------------------------------------------------------------------------
\* Order of the calls inside the two phases
\* ------------------------------------------------------------------------
RECURSIVE GenerateInOrder(_, _)
\* generate_nonce on the indices i, i+1, .. of ctx, in that order
GenerateInOrder(ctx, i) ==
    IF i < ctx.n_sigs
    THEN GenerateInOrder(secp256k1_aggsig_generate_nonce(ctx, i).aggctx, i + 1)
    ELSE ctx

RECURSIVE SignInOrder(_, _, _)
\* partial_sign with the matching key on the indices i, i+1, .. in that order
SignInOrder(ctx, parts, i) ==
    IF i < ctx.n_sigs
    THEN LET res == secp256k1_aggsig_partial_sign(ctx, parts[i], msg32, seckeys[i], i)
         IN SignInOrder(res.aggctx, [parts EXCEPT ![i] = res.partial], i + 1)
    ELSE [aggctx |-> ctx, partial |-> parts]

\* the run on the session's roster, keys, message and seed that calls
\* generate_nonce, then partial_sign, in index order and combines the result
IndexOrderRun ==
    LET created == secp256k1_aggsig_context_create(aggctx.pubkeys, aggctx.n_sigs, seed32)
        generated == GenerateInOrder(created, 0)
        signed == SignInOrder(generated, [i \in Indices |-> 0], 0)
    IN [gennonce |-> generated.secnonce,
        partial |-> signed.partial,
        sig64 |-> secp256k1_aggsig_combine_signatures(signed.aggctx, FreshSig, signed.partial,
                                                      aggctx.n_sigs, 0).sig64]

\* a complete run: every index nonce-generated, then every index signed with
\* its key (every partial_sign returned true), then the partials combined in
\* roster order, in any index order
CompleteRun ==
    /\ status = "live"
    /\ aggctx.n_sigs >= 1
    /\ proto.ok
    /\ proto.comb = "roster"
    /\ AllSigned

\* C20: for a fixed roster, secret keys, message and seed, the sig64 of a
\* complete run is the same whatever the order of the generate_nonce calls and
\* whatever the order of the partial_sign calls: it is the sig64 of the run
\* that makes them in index order.
C20_OrderIndependent ==
    CompleteRun => sig64 = IndexOrderRun.sig64

\* a complete run that generated the nonces in another order than the index
\* order and whose partials all differ from those of the index-order run
C20_Witness ==
    /\ CompleteRun
    /\ aggctx.n_sigs >= 2
    /\ call.ret = 1
    /\ hist.gennonce # IndexOrderRun.gennonce
    /\ \A i \in Indices : partial[i] # IndexOrderRun.partial[i]
    /\ Verifies

\* ------------------------------------------------------------------------
\* The index encoding of the per-index challenge
\* ------------------------------------------------------------------------
RECURSIVE LimbsValue(_)
\* the integer whose base-128 digits, least significant first, are bytes
LimbsValue(bytes) ==
    IF bytes = <<>> THEN 0 ELSE Head(bytes) + 128 * LimbsValue(Tail(bytes))

\* C18: compute_sighash writes no byte before the prehash for index 0; for an
\* index i > 0 it writes the 7-bit limbs of i, least significant first, each
\* below 128 and the last one non-zero; the bytes hashed for a prehash differ
\* for any two different indices.
C18_IndexEncoding ==
    call.name = "compute_sighash"
    => LET index == call.index
           prehash == call.arg[Len(call.arg)]
           bytes == SubSeq(call.arg, 1, Len(call.arg) - 1)
       IN /\ index = 0 => bytes = <<>>
          /\ index > 0 => /\ Len(bytes) >= 1
                          /\ \A k \in 1..Len(bytes) : bytes[k] \in 0..127
                          /\ bytes[Len(bytes)] # 0
          /\ LimbsValue(bytes) = index
          /\ \A other \in IndexInputs \ {index} :
                 SighashInput(prehash, other) # call.arg

\* an index whose encoding has three limbs, two of them zero
C18_Witness ==
    /\ call.name = "compute_sighash"
    /\ call.index = 16384
    /\ Len(call.arg) = 4
    /\ call.arg[1] = 0
    /\ call.arg[2] = 0
    /\ call.arg[3] = 1

\* ------------------------------------------------------------------------
\* Uniqueness of s
\* ------------------------------------------------------------------------
\* C19: when verify accepts sig64, it rejects every signature that keeps
\* bytes 32..63 and holds any other value in bytes 0..31, be it another scalar
\* or an encoding of an integer >= n, for the same message and roster.
C19_UniqueS ==
    (call.name = "verify" /\ call.ret = 1)
    => \A s \in ScalarStrings \ {sig64[1]} : \A M \in 2..MaxM : \A stack \in Stacks :
           secp256k1_aggsig_verify(M, stack, <<s, sig64[2]>>, msg32, aggctx.pubkeys,
                                   aggctx.n_sigs) = 0

\* an accepted signature whose s has a second, overflowing encoding s + n
C19_Witness ==
    /\ call.name = "verify"
    /\ call.ret = 1
    /\ aggctx.n_sigs >= 2
    /\ sig64[1] + GROUP_N < SCALAR_B32

\* ------------------------------------------------------------------------
\* The two builds of the verifier
\* ------------------------------------------------------------------------
\* C16: with USE_ENDOMORPHISM verify returns what it returns without, for every
\* signature, message, roster of N >= 1 keys and M >= 2, and every slot it
\* hands to the multi-exp primitive was written since the call before.
C16_EndoEquivalent ==
    (vfy.pc # "idle" /\ vfy.endo /\ aggctx.n_sigs >= 1)
    => /\ vfy.stale = {}
       /\ vfy.pc = "done"
          => vfy.ret = secp256k1_aggsig_verify(vfy.M, vfy.stack, sig64, msg32,
                                               aggctx.pubkeys, aggctx.n_sigs)

\* C17: in both builds the loop ends for every N >= 1 and M >= 2; every
\* completed pass after the first moves i forward, i stays <= N, no call of the
\* multi-exp primitive gets more than M terms and every slot written is one
\* of 0..M-1.
C17_ChunkLoopBounded ==
    /\ [](vfy.pc # "idle"
          => /\ vfy.i <= aggctx.n_sigs
             /\ vfy.terms <= vfy.M
             /\ vfy.written \subseteq 0..(vfy.M - 1))
    /\ [][(vfy.pc = "loop" /\ vfy'.pc = "loop" /\ vfy.iter >= 1)
          => vfy'.i >= vfy.i + 1]_vars
    /\ (vfy.pc = "loop") ~> (vfy.pc = "done")

\* a run of the build with USE_ENDOMORPHISM over two keys that took three
\* passes (the first one left i where it was) and reached the return
C17_Witness ==
    /\ vfy.pc = "done"
    /\ vfy.endo
    /\ aggctx.n_sigs >= 2
    /\ vfy.iter >= 3
    /\ vfy.i = aggctx.n_sigs
    /\ vfy.ret = 1

====
